---- MODULE Spec2Model ----
(***************************************************************************)
(* Model of the background task facility of src/tasks.py (one asyncio      *)
(* event loop, cooperative scheduling) together with the call of           *)
(* start_background_worker made by src/main.py at application startup.     *)
(*                                                                         *)
(* One action is one run of a coroutine between two suspension points:     *)
(* the event loop never interleaves anything inside such a run.            *)
(* asyncio.Queue is modelled by what put_nowait, get and task_done do to   *)
(* its item list, its list of waiting getters and its unfinished count.    *)
(* asyncio.CancelledError derives from BaseException (Python 3.8 and       *)
(* later), so "except Exception" does not catch it.                        *)
(*                                                                         *)
(* Further sections model what uses the facility: the request handler      *)
(* get_agent_response and the task extract_user_notes (src/agent.py), and  *)
(* the conversations and user_notes tables (src/database.py), each with a  *)
(* specification of its own over the same variables.                       *)
(***************************************************************************)
EXTENDS Naturals, Integers, Sequences, FiniteSets, TLC

\* ---- bounds ----
MaxTasks == 3
MaxWorkers == 2

Tasks == 1..MaxTasks
Workers == 1..MaxWorkers
NoTask == 0
NoWorker == 0

VARIABLES
    queue,            \* _task_queue: the items, oldest first (task ids)
    getters,          \* _task_queue._getters: workers suspended in get()
    unfinished,       \* _task_queue._unfinished_tasks
    isWorkerRunning,  \* _is_worker_running
    wpc,              \* position of each _background_worker coroutine
    wcancel,          \* cancellation requested for the worker, not yet delivered
    wcur,             \* the task a worker is awaiting (task_func)
    worigin,          \* which call created the worker: "startup" or "submit"
    nworkers,         \* number of worker coroutines created so far
    tstate,           \* what has become of each submitted task
    started,          \* history: tasks in the order their execution began
    nsubmitted,       \* number of queue_task calls so far
    startupDone,      \* main.startup has called start_background_worker
    abandoned,        \* history: tasks left in the queue with no worker by a cancellation
    afterThrow,       \* history: tasks submitted after some task had raised
    resp,             \* per task: the HTTP response of the request that submitted it
    rows,             \* user_notes table: per (user_id, key), the rows, each with the values written
    rowlock,          \* per (user_id, key): the call whose uncommitted UPDATE holds the row
    callpc,           \* position of each add_or_update_user_note call
    callkey,          \* the (user_id, key) a call writes
    callsaw,          \* what the call's SELECT returned: a row or none
    callres,          \* the call's return value
    completed,        \* history: the calls in the order they returned
    completion,       \* the completion text extract_user_notes received
    jsonStr,          \* json_str, the string handed to json.loads
    fpc,              \* position of the fence stripping in extract_user_notes
    convs,            \* conversations table: the records of one user_id, each the list of its exchanges
    rpc,              \* position of each get_agent_response call
    rsaw,             \* what the call's last SELECT returned: the record and its conversation
    rresult,          \* result: the completion text or the fallback message
    rraised,          \* where an Exception was raised inside the call, if anywhere
    rret,             \* what the call returned to the route
    targ,             \* per task: the arguments queue_task was given
    xpc,              \* position of each extract_user_notes coroutine
    xerr,             \* the Exception raised inside extract_user_notes, if any
    xout              \* how the coroutine ended for the worker awaiting it

\* the state of tasks.py
qvars == <<queue, getters, unfinished, isWorkerRunning, wpc, wcancel, wcur,
           worigin, nworkers, tstate, started, nsubmitted, startupDone,
           abandoned, afterThrow>>
\* the state of the request handler, of the notes table and of the parser
reqvars == <<resp>>
notevars == <<rows, rowlock, callpc, callkey, callsaw, callres, completed>>
fencevars == <<completion, jsonStr, fpc>>
convvars == <<convs, rpc, rsaw, rresult, rraised, rret, targ>>
extvars == <<xpc, xerr, xout>>
appvars == <<reqvars, notevars, fencevars, convvars, extvars>>

vars == <<qvars, appvars>>

Range(s) == {s[i] : i \in DOMAIN s}

\* a worker whose coroutine exists and has not finished
LiveStates == {"created", "waiting", "woken", "exec"}
\* a worker whose loop has been entered and not left
ActiveStates == {"waiting", "woken", "exec"}

Live(w) == wpc[w] \in LiveStates
Active(w) == wpc[w] \in ActiveStates
ActiveWorkers == {w \in Workers : Active(w)}
LiveWorkers == {w \in Workers : Live(w)}

\* ---- asyncio.Queue ----
QPutFront(q, item) == <<item>> \o q
QPutDropping(q, item) == IF q = <<>> THEN Append(q, item) ELSE q
QPut(q, item) == Append(q, item)

QHead(q) == Head(q)

\* asyncio.Queue() is built with maxsize 0: full() is never true
QueueMaxSize == 0
FullAtOne(q) == Len(q) >= 1
Full(q) == QueueMaxSize > 0 /\ Len(q) >= QueueMaxSize

QKeep(q) == q
QRest(q) == Tail(q)

\* _wakeup_next(_getters): pop waiters until one whose future is not done
\* (a cancelled getter is done); result is <<remaining getters, woken worker>>
RECURSIVE WakeupNext(_, _)
WakeupNone(g, canc) == <<g, NoWorker>>
WakeupNext(g, canc) ==
    IF g = <<>> THEN <<g, NoWorker>>
    ELSE IF canc[Head(g)] THEN WakeupNext(Tail(g), canc)
    ELSE <<Tail(g), Head(g)>>

WokenLost(pcs, w) == pcs
Woken(pcs, w) == IF w = NoWorker THEN pcs ELSE [pcs EXCEPT ![w] = "woken"]

\* ---- tasks.py ----
\* start_background_worker: "if not _is_worker_running"
NeverStart(flag) == FALSE
ShouldStart(flag) == ~flag

\* "except Exception" around the awaited task: which outcomes the loop survives
SurvivesOkOnly(outcome) == outcome = "ok"
SurvivesAll(outcome) == TRUE
WorkerSurvives(outcome) == outcome \in {"ok", "exception"}

\* _is_worker_running after a task has ended; the reset sits in the outer finally
FlagResetEachTask(survives, flag) == FALSE
FlagAfterTask(survives, flag) == IF survives THEN flag ELSE FALSE

\* the items left in _task_queue when the loop is left on cancellation
QueueDropped(q) == <<>>
QueueAfterCancel(q) == q

\* asyncio.create_task: the coroutine is scheduled, its first run is a later
\* event-loop step
CreateTaskEager(pcs, w) == [pcs EXCEPT ![w] = "exec"]
CreateTask(pcs, w) == [pcs EXCEPT ![w] = "created"]

QueueInit ==
    /\ queue = <<>>
    /\ getters = <<>>
    /\ unfinished = 0
    /\ isWorkerRunning = FALSE
    /\ wpc = [w \in Workers |-> "none"]
    /\ wcancel = [w \in Workers |-> FALSE]
    /\ wcur = [w \in Workers |-> NoTask]
    /\ worigin = [w \in Workers |-> "none"]
    /\ nworkers = 0
    /\ tstate = [t \in Tasks |-> "unsubmitted"]
    /\ started = <<>>
    /\ nsubmitted = 0
    /\ startupDone = FALSE
    /\ abandoned = {}
    /\ afterThrow = {}

\* ---- database.py: user_notes ----
MaxCalls == 3
Calls == 1..MaxCalls
NoCall == 0
\* the (user_id, key) pairs the calls may write
NotePairs == {"u1/protein_intake", "u1/weight_loss"}

NotesInit ==
    /\ rows = [k \in NotePairs |-> <<>>]
    /\ rowlock = [k \in NotePairs |-> NoCall]
    /\ callpc = [c \in Calls |-> "idle"]
    /\ callkey = [c \in Calls |-> "none"]
    /\ callsaw = [c \in Calls |-> "none"]
    /\ callres = [c \in Calls |-> "none"]
    /\ completed = <<>>

\* ---- agent.py: the completion text, as a sequence of tokens ----
\* "T" is the three backticks, "J" the word json, "x" any other text and
\* "o" the JSON object
MaxText == 2
FenceFreeTokens == {"x", "J"}
TextTokens == {"x", "J", "T"}
TextsOver(tokens) == UNION {[1..n -> tokens] : n \in 0..MaxText}
NoCompletion == [kind |-> "unset", pre |-> <<>>, post |-> <<>>]

ReqInit == resp = [t \in Tasks |-> "none"]
FenceUnset ==
    /\ completion = NoCompletion
    /\ jsonStr = <<>>
    /\ fpc = "unset"


\* ---- agent.py: get_agent_response calls for one user ----
MaxReqs == 2
Reqs == 1..MaxReqs
NoReq == 0
NoRecord == 0
NoArgs == [req |-> NoReq, text |-> "none"]

ConvInit ==
    /\ convs = <<>>
    /\ rpc = [r \in Reqs |-> "idle"]
    /\ rsaw = [r \in Reqs |-> [rec |-> NoRecord, conv |-> <<>>]]
    /\ rresult = [r \in Reqs |-> "none"]
    /\ rraised = [r \in Reqs |-> "none"]
    /\ rret = [r \in Reqs |-> "none"]
    /\ targ = [t \in Tasks |-> NoArgs]

\* ---- agent.py: extract_user_notes as the queued task ----
ExtractInit ==
    /\ xpc = [t \in Tasks |-> "none"]
    /\ xerr = [t \in Tasks |-> "none"]
    /\ xout = [t \in Tasks |-> "none"]

Init == QueueInit /\ ReqInit /\ NotesInit /\ FenceUnset /\ ConvInit /\ ExtractInit

\* start_background_worker(), on the worker positions pcs
StartBackgroundWorker(pcs, origin) ==
    IF ShouldStart(isWorkerRunning)
    THEN /\ wpc' = CreateTask(pcs, nworkers + 1)
         /\ worigin' = [worigin EXCEPT ![nworkers + 1] = origin]
         /\ nworkers' = nworkers + 1
    ELSE /\ wpc' = pcs
         /\ UNCHANGED <<worigin, nworkers>>

\* main.startup: start_background_worker() once the database is initialised
Startup ==
    /\ ~startupDone
    /\ ShouldStart(isWorkerRunning) => nworkers < MaxWorkers
    /\ startupDone' = TRUE
    /\ StartBackgroundWorker(wpc, "startup")
    /\ UNCHANGED <<queue, getters, unfinished, isWorkerRunning, wcancel, wcur,
                   tstate, started, nsubmitted, abandoned, afterThrow>>
    /\ UNCHANGED appvars

\* queue_task(func, ...): put on the unbounded queue (never suspends), then
\* start_background_worker()
Submit ==
    /\ nsubmitted < MaxTasks
    /\ ShouldStart(isWorkerRunning) => nworkers < MaxWorkers
    /\ LET t == nsubmitted + 1
           wk == WakeupNext(getters, wcancel)
       IN IF Full(queue)
          THEN \* put() suspends the caller until a slot is free
               /\ tstate' = [tstate EXCEPT ![t] = "put_waiting"]
               /\ nsubmitted' = t
               /\ UNCHANGED <<queue, unfinished, getters, afterThrow, wpc,
                              worigin, nworkers>>
          ELSE /\ queue' = QPut(queue, t)
               /\ unfinished' = unfinished + 1
               /\ getters' = wk[1]
               /\ tstate' = [tstate EXCEPT ![t] = "queued"]
               /\ nsubmitted' = t
               /\ afterThrow' = IF \E u \in Tasks : tstate[u] = "raised"
                                THEN afterThrow \cup {t} ELSE afterThrow
               /\ StartBackgroundWorker(Woken(wpc, wk[2]), "submit")
    /\ UNCHANGED <<isWorkerRunning, wcancel, wcur, started, startupDone, abandoned>>

\* a queue_task call made by any caller
QueueTask == Submit /\ UNCHANGED appvars

\* "await _task_queue.get()" and, when an item is there, the start of
\* "await task_func(...)" up to its first suspension
GetOrWait(w, ts) ==
    IF queue = <<>>
    THEN /\ getters' = Append(getters, w)
         /\ wpc' = [wpc EXCEPT ![w] = "waiting"]
         /\ wcur' = [wcur EXCEPT ![w] = NoTask]
         /\ tstate' = ts
         /\ UNCHANGED <<queue, started>>
    ELSE /\ queue' = QRest(queue)
         /\ wpc' = [wpc EXCEPT ![w] = "exec"]
         /\ wcur' = [wcur EXCEPT ![w] = QHead(queue)]
         /\ tstate' = [ts EXCEPT ![QHead(queue)] = "running"]
         /\ started' = Append(started, QHead(queue))
         /\ UNCHANGED getters

\* the loop is left: break, then the finally clause
ExitLoop(w) ==
    /\ wpc' = [wpc EXCEPT ![w] = "done"]
    /\ wcur' = [wcur EXCEPT ![w] = NoTask]
    /\ wcancel' = [wcancel EXCEPT ![w] = FALSE]
    /\ isWorkerRunning' = FALSE

\* the tasks a cancellation of w leaves in the queue with no worker at all
Abandon(w, q) ==
    IF \E v \in Workers \ {w} : Live(v) THEN abandoned ELSE abandoned \cup Range(q)

\* first run of the coroutine: sets the flag, enters the loop, reaches get()
WorkerStart(w) ==
    /\ wpc[w] = "created"
    /\ ~wcancel[w]
    /\ isWorkerRunning' = TRUE
    /\ GetOrWait(w, tstate)
    /\ UNCHANGED <<unfinished, wcancel, worigin, nworkers, nsubmitted,
                   startupDone, abandoned, afterThrow>>
    /\ UNCHANGED appvars

\* a worker cancelled before its first run never executes its body
WorkerNeverRuns(w) ==
    /\ wpc[w] = "created"
    /\ wcancel[w]
    /\ wpc' = [wpc EXCEPT ![w] = "cancelled"]
    /\ wcancel' = [wcancel EXCEPT ![w] = FALSE]
    /\ UNCHANGED <<queue, getters, unfinished, isWorkerRunning, wcur, worigin,
                   nworkers, tstate, started, nsubmitted, startupDone,
                   abandoned, afterThrow>>
    /\ UNCHANGED appvars

\* the getter future got a result: get() re-tests empty() and takes the item
WorkerWake(w) ==
    /\ wpc[w] = "woken"
    /\ ~wcancel[w]
    /\ GetOrWait(w, tstate)
    /\ UNCHANGED <<unfinished, isWorkerRunning, wcancel, worigin, nworkers,
                   nsubmitted, startupDone, abandoned, afterThrow>>
    /\ UNCHANGED appvars

\* CancelledError delivered inside get(); a getter that already had its
\* result hands the wake-up on to the next getter before re-raising
WorkerCancelledInGet(w) ==
    /\ wpc[w] \in {"waiting", "woken"}
    /\ wcancel[w]
    /\ LET g1 == SelectSeq(getters, LAMBDA x : x # w)
           wk == IF wpc[w] = "woken" /\ queue # <<>>
                 THEN WakeupNext(g1, wcancel) ELSE <<g1, NoWorker>>
       IN /\ getters' = wk[1]
          /\ wpc' = [Woken(wpc, wk[2]) EXCEPT ![w] = "done"]
    /\ wcur' = [wcur EXCEPT ![w] = NoTask]
    /\ wcancel' = [wcancel EXCEPT ![w] = FALSE]
    /\ isWorkerRunning' = FALSE
    /\ queue' = QueueAfterCancel(queue)
    /\ abandoned' = Abandon(w, queue)
    /\ UNCHANGED <<unfinished, worigin, nworkers, tstate, started, nsubmitted,
                   startupDone, afterThrow>>
    /\ UNCHANGED appvars

\* the awaited task ends: returned, raised an Exception, or raised
\* CancelledError itself
TaskEnds(w, outcome) ==
    /\ wpc[w] = "exec"
    /\ ~wcancel[w]
    /\ LET t == wcur[w]
           ts == [tstate EXCEPT ![t] = CASE outcome = "ok" -> "returned"
                                         [] outcome = "exception" -> "raised"
                                         [] OTHER -> "raised_cancelled"]
       IN IF WorkerSurvives(outcome)
          THEN /\ unfinished' = unfinished - 1
               /\ isWorkerRunning' = FlagAfterTask(TRUE, isWorkerRunning)
               /\ GetOrWait(w, ts)
               /\ UNCHANGED wcancel
          ELSE /\ tstate' = ts
               /\ wpc' = [wpc EXCEPT ![w] = "done"]
               /\ wcur' = [wcur EXCEPT ![w] = NoTask]
               /\ isWorkerRunning' = FlagAfterTask(FALSE, isWorkerRunning)
               /\ UNCHANGED <<queue, getters, unfinished, started, wcancel>>
    /\ UNCHANGED <<worigin, nworkers, nsubmitted, startupDone, abandoned, afterThrow>>
    /\ UNCHANGED appvars

TaskReturns(w) == TaskEnds(w, "ok")
TaskRaises(w) == TaskEnds(w, "exception")
TaskRaisesCancelled(w) == TaskEnds(w, "cancelled_error")

\* CancelledError delivered while the task is awaited: the task is
\* interrupted; "except Exception" lets it pass, so task_done is skipped and
\* the outer handler leaves the loop
WorkerCancelledInTask(w) ==
    /\ wpc[w] = "exec"
    /\ wcancel[w]
    /\ LET ts == [tstate EXCEPT ![wcur[w]] = "interrupted"]
       IN IF WorkerSurvives("cancelled_error")
          THEN /\ unfinished' = unfinished - 1
               /\ wcancel' = [wcancel EXCEPT ![w] = FALSE]
               /\ GetOrWait(w, ts)
               /\ UNCHANGED <<isWorkerRunning, abandoned>>
          ELSE /\ tstate' = ts
               /\ ExitLoop(w)
               /\ queue' = QueueAfterCancel(queue)
               /\ abandoned' = Abandon(w, queue)
               /\ UNCHANGED <<getters, unfinished, started>>
    /\ UNCHANGED <<worigin, nworkers, nsubmitted, startupDone, afterThrow>>
    /\ UNCHANGED appvars

\* Task.cancel() on a worker (event loop shutdown cancels every task)
Cancel(w) ==
    /\ Live(w)
    /\ ~wcancel[w]
    /\ wcancel' = [wcancel EXCEPT ![w] = TRUE]
    /\ UNCHANGED <<queue, getters, unfinished, isWorkerRunning, wpc, wcur,
                   worigin, nworkers, tstate, started, nsubmitted, startupDone,
                   abandoned, afterThrow>>
    /\ UNCHANGED appvars

Next ==
    \/ Startup
    \/ QueueTask
    \/ \E w \in Workers : WorkerStart(w)
    \/ \E w \in Workers : WorkerNeverRuns(w)
    \/ \E w \in Workers : WorkerWake(w)
    \/ \E w \in Workers : WorkerCancelledInGet(w)
    \/ \E w \in Workers : TaskReturns(w)
    \/ \E w \in Workers : TaskRaises(w)
    \/ \E w \in Workers : TaskRaisesCancelled(w)
    \/ \E w \in Workers : WorkerCancelledInTask(w)
    \/ \E w \in Workers : Cancel(w)

Spec == Init /\ [][Next]_vars

\* the facility with no cancellation: nobody cancels a worker and no task
\* raises CancelledError; the event loop runs every ready coroutine and
\* every task terminates
NextNoCancel ==
    \/ Startup
    \/ QueueTask
    \/ \E w \in Workers : WorkerStart(w)
    \/ \E w \in Workers : WorkerWake(w)
    \/ \E w \in Workers : TaskReturns(w)
    \/ \E w \in Workers : TaskRaises(w)

NoCancelSpec ==
    /\ Init
    /\ [][NextNoCancel]_vars
    /\ \A w \in Workers : WF_vars(WorkerStart(w))
    /\ \A w \in Workers : WF_vars(WorkerWake(w))
    /\ \A w \in Workers : WF_vars(TaskReturns(w) \/ TaskRaises(w))

TypeOK ==
    /\ queue \in Seq(Tasks)
    /\ getters \in Seq(Workers)
    /\ unfinished \in Nat
    /\ isWorkerRunning \in BOOLEAN
    /\ wpc \in [Workers -> {"none", "created", "waiting", "woken", "exec", "done", "cancelled"}]
    /\ wcancel \in [Workers -> BOOLEAN]
    /\ wcur \in [Workers -> Tasks \cup {NoTask}]
    /\ nworkers \in 0..MaxWorkers
    /\ nsubmitted \in 0..MaxTasks
    /\ Range(getters) \subseteq {w \in Workers : wpc[w] = "waiting"}

\* ---- agent.py / api.py: a request that submits the extraction task ----
\* get_agent_response from the conversation append to its return
\* (queue_task, return html_response), the route's return and the part of
\* the ASGI server's sending that runs before the next suspension.  The
\* response is written in this run (now) or, when the server has to wait for
\* the transport, in a later event-loop step.
HandlerSubmit(now) ==
    /\ Submit
    /\ resp' = [resp EXCEPT ![nsubmitted + 1] = IF now THEN "sent" ELSE "pending"]
    /\ UNCHANGED <<notevars, fencevars, convvars, extvars>>

\* the server finishes sending the response of the request that submitted t
SendResponse(t) ==
    /\ resp[t] = "pending"
    /\ resp' = [resp EXCEPT ![t] = "sent"]
    /\ UNCHANGED <<qvars, notevars, fencevars, convvars, extvars>>

ReqNext ==
    \/ Startup
    \/ \E now \in BOOLEAN : HandlerSubmit(now)
    \/ \E t \in Tasks : SendResponse(t)
    \/ \E w \in Workers : WorkerStart(w)
    \/ \E w \in Workers : WorkerWake(w)
    \/ \E w \in Workers : TaskReturns(w)
    \/ \E w \in Workers : TaskRaises(w)

ReqSpec == Init /\ [][ReqNext]_vars

\* ---- database.py: add_or_update_user_note ----
\* Each call writes the values (value, confidence, source) of its own, named
\* by the call; a row holds the name of the call whose values it has.
\* The SELECT sees the committed rows; the UPDATE locks the row until its
\* transaction commits; the INSERT is flushed by commit and fails on the
\* unique constraint (user_id, key).

\* "select(UserNotes).where(user_id).where(key)" then "first()"
NoteSelect(c, k) ==
    /\ callpc[c] = "idle"
    /\ callkey' = [callkey EXCEPT ![c] = k]
    /\ callsaw' = [callsaw EXCEPT ![c] = IF rows[k] # <<>> THEN "row" ELSE "none"]
    /\ callpc' = [callpc EXCEPT ![c] = "selected"]
    /\ UNCHANGED <<rows, rowlock, callres, completed>>
    /\ UNCHANGED <<qvars, reqvars, fencevars, convvars, extvars>>

\* "if note:" the UPDATE by id, which waits for the row lock
NoteUpdate(c) ==
    /\ callpc[c] = "selected"
    /\ callsaw[c] = "row"
    /\ rowlock[callkey[c]] = NoCall
    /\ rowlock' = [rowlock EXCEPT ![callkey[c]] = c]
    /\ callpc' = [callpc EXCEPT ![c] = "updated"]
    /\ UNCHANGED <<rows, callkey, callsaw, callres, completed>>
    /\ UNCHANGED <<qvars, reqvars, fencevars, convvars, extvars>>

\* commit of the update, return True
NoteCommitUpdate(c) ==
    /\ callpc[c] = "updated"
    /\ rows' = [rows EXCEPT ![callkey[c]] = [@ EXCEPT ![1] = c]]
    /\ rowlock' = [rowlock EXCEPT ![callkey[c]] = NoCall]
    /\ callres' = [callres EXCEPT ![c] = "true"]
    /\ callpc' = [callpc EXCEPT ![c] = "done"]
    /\ completed' = Append(completed, c)
    /\ UNCHANGED <<callkey, callsaw>>
    /\ UNCHANGED <<qvars, reqvars, fencevars, convvars, extvars>>

\* "else:" session.add(new_note), then commit: the INSERT violates the
\* unique constraint when a row of the pair exists by now (IntegrityError,
\* caught, return False), otherwise the row is stored (return True)
NoteInsertCommit(c) ==
    /\ callpc[c] = "selected"
    /\ callsaw[c] = "none"
    /\ IF rows[callkey[c]] # <<>>
       THEN /\ callres' = [callres EXCEPT ![c] = "false"]
            /\ UNCHANGED rows
       ELSE /\ callres' = [callres EXCEPT ![c] = "true"]
            /\ rows' = [rows EXCEPT ![callkey[c]] = Append(@, c)]
    /\ callpc' = [callpc EXCEPT ![c] = "done"]
    /\ completed' = Append(completed, c)
    /\ UNCHANGED <<rowlock, callkey, callsaw>>
    /\ UNCHANGED <<qvars, reqvars, fencevars, convvars, extvars>>

NoteNext ==
    \/ \E c \in Calls, k \in NotePairs : NoteSelect(c, k)
    \/ \E c \in Calls : NoteUpdate(c)
    \/ \E c \in Calls : NoteCommitUpdate(c)
    \/ \E c \in Calls : NoteInsertCommit(c)

NoteSpec == Init /\ [][NoteNext]_vars

\* ---- agent.py: extract_user_notes, the fence stripping ----
JsonObject == <<"o">>
Fence == <<"T">>
JsonFence == <<"T", "J">>

\* the completions tried: text without fences, then an opening fence, the
\* JSON object, the closing fence and any trailing text; or no fence at all
Completions ==
    {[kind |-> k, pre |-> p, post |-> q] :
        k \in {"plain", "json"}, p \in TextsOver(FenceFreeTokens), q \in TextsOver(TextTokens)}
    \cup {[kind |-> "none", pre |-> p, post |-> <<>>] : p \in TextsOver(FenceFreeTokens)}

\* response.choices[0].message.content
ResultText(c) ==
    IF c.kind = "none" THEN c.pre
    ELSE c.pre \o (IF c.kind = "json" THEN JsonFence ELSE Fence)
               \o JsonObject \o Fence \o c.post

OccursAt(s, sep, i) ==
    /\ i + Len(sep) - 1 <= Len(s)
    /\ SubSeq(s, i, i + Len(sep) - 1) = sep
\* sep in s
Contains(s, sep) == \E i \in 1..Len(s) : OccursAt(s, sep, i)
FirstAt(s, sep) ==
    CHOOSE i \in 1..Len(s) :
        OccursAt(s, sep, i) /\ \A j \in 1..(i - 1) : ~OccursAt(s, sep, j)
\* s.split(sep)[0]
SplitPiece0(s, sep) ==
    IF Contains(s, sep) THEN SubSeq(s, 1, FirstAt(s, sep) - 1) ELSE s
\* s.split(sep)[1], for s that contains sep
SplitPiece1(s, sep) ==
    SplitPiece0(SubSeq(s, FirstAt(s, sep) + Len(sep), Len(s)), sep)

\* json_str as computed from result_text
ExtractJsonStr(text) ==
    IF Contains(text, JsonFence)
    THEN SplitPiece0(SplitPiece1(text, JsonFence), Fence)
    ELSE IF Contains(text, Fence)
    THEN SplitPiece0(SplitPiece1(text, Fence), Fence)
    ELSE text

FenceInit ==
    /\ QueueInit /\ ReqInit /\ NotesInit /\ ConvInit /\ ExtractInit
    /\ completion \in Completions
    /\ jsonStr = <<>>
    /\ fpc = "received"

StripFences ==
    /\ fpc = "received"
    /\ jsonStr' = ExtractJsonStr(ResultText(completion))
    /\ fpc' = "stripped"
    /\ UNCHANGED <<completion, qvars, reqvars, notevars, convvars, extvars>>

FenceNext == StripFences

FenceSpec == FenceInit /\ [][FenceNext]_vars

\* ---------------------------------------------------------------------
\* Properties.  Task ids are handed out in submission order: the k-th
\* queue_task call submits task k.
\* ---------------------------------------------------------------------

\* C1: in every reachable state at most one _background_worker loop is
\* active (entered and not left), whatever the interleaving of queue_task
\* calls, the startup call and event-loop steps.
AtMostOneWorkerActive == Cardinality(ActiveWorkers) <= 1

\* C2: a step in which start_background_worker sees the flag false and
\* creates a worker leaves the flag true, so the next coroutine to run
\* cannot see it false as well.
FlagSetWithStart == [][nworkers' > nworkers => isWorkerRunning']_vars

\* C3: tasks start executing in exactly the order of their submission:
\* the i-th task to start is the i-th task submitted.
FifoStartOrder == \A i \in DOMAIN started : started[i] = i
FifoWitness == Len(started) >= 3 /\ Cardinality(ActiveWorkers) >= 2

\* C4: at any time at most one submitted task is executing.
AtMostOneTaskExecuting == Cardinality({t \in Tasks : tstate[t] = "running"}) <= 1

\* C5: when the task a worker awaits raises an Exception the worker loop
\* goes on (it is still active after the step), and every task queued
\* behind the raising task is eventually executed.
RaiseDoesNotStopWorker ==
    /\ [][\A w \in Workers :
            (wpc[w] = "exec" /\ tstate'[wcur[w]] = "raised") => wpc'[w] \in ActiveStates]_vars
    /\ \A t, u \in Tasks :
            (t < u /\ tstate[t] = "raised" /\ tstate[u] = "queued")
                ~> (tstate[u] \in {"returned", "raised"})
RaiseWitness ==
    \E t, u \in Tasks : t < u /\ tstate[t] = "raised" /\ tstate[u] = "returned"

\* C6: no task is dequeued twice, and a task that has been dequeued
\* (whether it returned, raised or was interrupted) is not in the queue again.
NoTaskExecutedTwice ==
    /\ \A i, j \in DOMAIN started : i # j => started[i] # started[j]
    /\ \A t \in Range(started) : t \notin Range(queue)
ExecutedOnceWitness ==
    /\ \E t \in Tasks : tstate[t] = "raised"
    /\ Len(started) >= 3
    /\ Cardinality({w \in Workers : wpc[w] \in {"exec", "waiting"}}) >= 2

\* C7: with no cancellation, a task submitted after some task has raised
\* is eventually dequeued and executed to its end.
ExecutedAfterThrow ==
    \A t \in Tasks :
        (t \in afterThrow /\ tstate[t] = "queued") ~> (tstate[t] \in {"returned", "raised"})
AfterThrowWitness == \E t \in afterThrow : tstate[t] \in {"returned", "raised"}

\* C8: with no cancellation, whenever the queue holds a task there is a
\* worker that will take it without any further submit: one created and
\* about to start, one woken from get(), or one executing a task.
SubmittedTaskHasWorker ==
    queue # <<>> => \E w \in Workers : wpc[w] \in {"created", "woken", "exec"}
HasWorkerWitness ==
    /\ Len(queue) >= 2
    /\ nworkers = 1
    /\ \E w \in Workers : wpc[w] = "woken"

\* C9 as stated: the flag goes STOPPED->RUNNING only through a worker that a
\* queue_task call created, and RUNNING->STOPPED only when a cancelled worker
\* leaves its loop.
LifecycleOriginal ==
    [][/\ (~isWorkerRunning /\ isWorkerRunning') =>
              \E w \in Workers : /\ wpc[w] = "created"
                                 /\ wpc'[w] \in ActiveStates
                                 /\ worigin[w] = "submit"
       /\ (isWorkerRunning /\ ~isWorkerRunning') =>
              \E w \in Workers : Active(w) /\ wcancel[w] /\ wpc'[w] = "done"]_vars

\* C9 amended: the flag goes STOPPED->RUNNING only in the first run of a
\* worker created by start_background_worker, called from queue_task or from
\* application startup; it goes RUNNING->STOPPED only when a worker leaves its
\* loop because CancelledError reached it (the worker was cancelled, or the
\* awaited task raised CancelledError itself).
LifecycleAmended ==
    [][/\ (~isWorkerRunning /\ isWorkerRunning') =>
              \E w \in Workers : /\ wpc[w] = "created"
                                 /\ wpc'[w] \in ActiveStates
                                 /\ worigin[w] \in {"submit", "startup"}
       /\ (isWorkerRunning /\ ~isWorkerRunning') =>
              \E w \in Workers :
                  /\ Active(w)
                  /\ wpc'[w] = "done"
                  /\ \/ wcancel[w]
                     \/ wpc[w] = "exec" /\ tstate'[wcur[w]] = "raised_cancelled"]_vars
LifecycleWitness ==
    /\ isWorkerRunning
    /\ \E t \in Tasks : tstate[t] = "interrupted"
    /\ \E w, v \in Workers : /\ wpc[w] = "done" /\ worigin[w] = "startup"
                             /\ Active(v) /\ worigin[v] = "submit"

\* C10 as stated: a task left in the queue by the cancellation of the
\* worker loop is never executed afterwards.
AbandonedNeverExecuted == \A t \in abandoned : tstate[t] = "queued"

\* C10 amended: a task left in the queue by the cancellation of the worker
\* loop is not discarded: it stays in the queue until a worker started
\* later dequeues it, and that worker executes it.
AbandonedStayQueued ==
    \A t \in abandoned :
        IF tstate[t] = "queued" THEN t \in Range(queue) ELSE t \in Range(started)
AbandonedWitness == \E t \in abandoned : tstate[t] \in {"returned", "raised"}

\* C11: the flag _is_worker_running is true exactly when some worker loop
\* is active (entered and not left).
FlagIffWorkerActive == isWorkerRunning <=> (ActiveWorkers # {})

\* C12: every task whose worker was not cancelled under it is in exactly one
\* place: once in the queue and never started, or started exactly once and
\* then either awaited by exactly one worker or ended.
Occurrences(s, x) == Cardinality({i \in DOMAIN s : s[i] = x})
NoTaskLost ==
    \A t \in 1..nsubmitted :
        \/ tstate[t] = "interrupted"
        \/ /\ tstate[t] = "queued"
           /\ Occurrences(queue, t) = 1
           /\ Occurrences(started, t) = 0
        \/ /\ tstate[t] = "running"
           /\ Occurrences(queue, t) = 0
           /\ Occurrences(started, t) = 1
           /\ Cardinality({w \in Workers : wpc[w] = "exec" /\ wcur[w] = t}) = 1
        \/ /\ tstate[t] \in {"returned", "raised", "raised_cancelled"}
           /\ Occurrences(queue, t) = 0
           /\ Occurrences(started, t) = 1
NoTaskLostWitness ==
    /\ \E t \in Tasks : tstate[t] = "queued"
    /\ \E t \in Tasks : tstate[t] = "returned"
    /\ \E t \in Tasks : tstate[t] = "running"
    /\ Cardinality(ActiveWorkers) >= 2

\* C13: every queue_task call, at any queue depth, appends its task to the
\* queue and returns within the same uninterrupted run: the caller is never
\* left suspended in put() and no submission is dropped.
QueueTaskNeverBlocks ==
    [][nsubmitted' # nsubmitted =>
          /\ queue' = Append(queue, nsubmitted')
          /\ tstate'[nsubmitted'] = "queued"]_vars
NeverBlocksWitness == Len(queue) >= 3

\* C14: a task starts only in a step at whose beginning its queue_task call
\* had already returned (the task was queued), and a step in which a task
\* starts or raises is a step of a worker, never of a queue_task call.
TaskRunsAfterSubmitReturned ==
    [][/\ \A t \in Tasks :
              (tstate[t] # "running" /\ tstate'[t] = "running") => tstate[t] = "queued"
       /\ (\/ \E w \in Workers : wpc[w] # "exec" /\ wpc'[w] = "exec"
           \/ started' # started
           \/ \E t \in Tasks : /\ tstate[t] = "running"
                               /\ tstate'[t] \in {"raised", "raised_cancelled"})
              => nsubmitted' = nsubmitted]_vars
AfterSubmitWitness ==
    /\ \E t \in Tasks : tstate[t] = "raised"
    /\ nsubmitted >= 3
    /\ Len(started) >= 2

\* C16: when a cancellation is delivered to a worker whose loop is active
\* (suspended in get() or awaiting a task) the coroutine ends normally, the
\* error is not propagated, and _is_worker_running is false after that step.
CancelCaught ==
    [][\A w \in Workers :
          (Active(w) /\ wcancel[w] /\ ~wcancel'[w])
              => (wpc'[w] = "done" /\ ~isWorkerRunning')]_vars
CancelCaughtWitness ==
    /\ ~isWorkerRunning
    /\ Cardinality({w \in Workers : wpc[w] = "done"}) >= 2
    /\ Cardinality({t \in Tasks : tstate[t] = "interrupted"}) = 1
    /\ \A t \in Tasks : tstate[t] # "raised_cancelled"

\* C17: a worker suspended in get() on an empty queue does nothing until a
\* queue_task call wakes it, and the worker that waits when the first task
\* arrives then executes that task.
EmptyQueueWorkerWaits ==
    /\ [][\A w \in Workers :
            wpc[w] = "waiting" =>
                \/ wpc'[w] = "waiting"
                \/ wpc'[w] = "woken" /\ nsubmitted' = nsubmitted + 1]_vars
    /\ \A w \in Workers :
            (wpc[w] \in {"waiting", "woken"} /\ tstate[1] = "queued" /\ started = <<>>)
                ~> (wpc[w] = "exec" /\ wcur[w] = 1)
EmptyQueueWitness ==
    \E w \in Workers : /\ wpc[w] = "woken"
                       /\ worigin[w] = "startup"
                       /\ tstate[1] = "queued"
                       /\ started = <<>>

\* C20: whatever a task raises (an Exception or CancelledError, the worker
\* itself not being cancelled), the worker marks the task done and its loop
\* stays active.
TaskFailureNeverStopsWorker ==
    [][\A w \in Workers :
          (/\ wpc[w] = "exec"
           /\ ~wcancel[w]
           /\ tstate'[wcur[w]] \in {"raised", "raised_cancelled"})
              => (wpc'[w] \in ActiveStates /\ unfinished' = unfinished - 1)]_vars

\* C15: a task that has started executing belongs to a request whose HTTP
\* response has already been sent.
ResponseBeforeTaskStart ==
    \A t \in Tasks :
        tstate[t] \in {"running", "returned", "raised"} => resp[t] = "sent"

\* C18: once no add_or_update_user_note call is in flight, every (user_id,
\* key) that some call wrote has exactly one row, and the row holds the
\* values of the call for that pair that returned last.
RECURSIVE LastCallFor(_, _)
LastCallFor(done, k) ==
    IF done = <<>> THEN NoCall
    ELSE IF callkey[done[Len(done)]] = k THEN done[Len(done)]
    ELSE LastCallFor(SubSeq(done, 1, Len(done) - 1), k)
LastWriteWins ==
    (\A c \in Calls : callpc[c] \in {"idle", "done"}) =>
        \A k \in NotePairs :
            LastCallFor(completed, k) # NoCall =>
                (Len(rows[k]) = 1 /\ rows[k][1] = LastCallFor(completed, k))

\* C19: for a completion made of fence-free text, an opening fence (plain
\* or json), the JSON object, a closing fence and any trailing text, json_str
\* is the JSON object; for a completion without fence it is the whole text.
FenceYieldsJson ==
    fpc = "stripped" =>
        jsonStr = IF completion.kind = "none" THEN ResultText(completion) ELSE JsonObject

\* C26: task_done is called once for every dequeued task (returned, raised
\* or interrupted by the cancellation of its worker): whenever the queue is
\* empty and no task is executing, the count of unfinished tasks is zero.
UnfinishedBalanced ==
    (queue = <<>> /\ \A t \in Tasks : tstate[t] # "running") => unfinished = 0

\* ---- database.py: add_or_update_user_note, with database errors ----
\* what the call hands to its caller when an Exception is raised inside it
NoteCaught(exc) == "false"

\* the committed rows after a call failed at position pc: the session is
\* closed without commit, so an UPDATE already executed is rolled back
RowsKeepUpdate(rs, c, k, pc) ==
    IF pc = "updated" THEN [rs EXCEPT ![k] = [@ EXCEPT ![1] = c]] ELSE rs
RowsAfterError(rs, c, k, pc) == rs

\* the SELECT raises (connection lost, statement error)
NoteSelectFails(c, k) ==
    /\ callpc[c] = "idle"
    /\ callkey' = [callkey EXCEPT ![c] = k]
    /\ callres' = [callres EXCEPT ![c] = NoteCaught("exception")]
    /\ callpc' = [callpc EXCEPT ![c] = "done"]
    /\ completed' = Append(completed, c)
    /\ rows' = RowsAfterError(rows, c, k, "idle")
    /\ UNCHANGED <<rowlock, callsaw>>
    /\ UNCHANGED <<qvars, reqvars, fencevars, convvars, extvars>>

\* the UPDATE or the commit raises for a reason other than the unique
\* constraint: "except Exception" returns False, the session is closed
NoteError(c) ==
    /\ callpc[c] \in {"selected", "updated"}
    /\ callres' = [callres EXCEPT ![c] = NoteCaught("exception")]
    /\ callpc' = [callpc EXCEPT ![c] = "done"]
    /\ completed' = Append(completed, c)
    /\ rows' = RowsAfterError(rows, c, callkey[c], callpc[c])
    /\ rowlock' = [k \in NotePairs |-> IF rowlock[k] = c THEN NoCall ELSE rowlock[k]]
    /\ UNCHANGED <<callkey, callsaw>>
    /\ UNCHANGED <<qvars, reqvars, fencevars, convvars, extvars>>

NoteErrNext ==
    \/ NoteNext
    \/ \E c \in Calls, k \in NotePairs : NoteSelectFails(c, k)
    \/ \E c \in Calls : NoteError(c)

NoteErrSpec == Init /\ [][NoteErrNext]_vars

\* C25: add_or_update_user_note raises no Exception: a finished call has
\* returned True or False; the step in which it returns True is a commit that
\* stores its values, and the step in which it returns False leaves the
\* committed notes of every user and key as they were.
NoteNeverRaises ==
    [][\A c \in Calls :
          /\ callpc'[c] = "done" => callres'[c] \in {"true", "false"}
          /\ (callres[c] # "true" /\ callres'[c] = "true") =>
                 (rows'[callkey[c]] # <<>> /\ rows'[callkey[c]][Len(rows'[callkey[c]])] = c)
          /\ (callres[c] # "false" /\ callres'[c] = "false") => rows' = rows]_vars
NoteNeverRaisesWitness ==
    \E c, d, e \in Calls :
        /\ callres[c] = "false" /\ callsaw[c] = "row"
        /\ callres[d] = "false" /\ callsaw[d] = "none" /\ callkey[d] = callkey[c]
        /\ callres[e] = "true" /\ callkey[e] = callkey[c]

\* ---- agent.py / database.py: get_agent_response and the conversation ----
\* One user; an exchange is the user message and the assistant message of
\* one request.  The conversations table has no unique constraint on user_id
\* (database.py:230), so it may hold several records of the user; a SELECT
\* followed by first() returns any of them.
Reply == "reply"
Fallback == "fallback"

\* format_response_as_html(result)
FormatHtml(text) == <<"html", text>>
\* the two entries append_to_user_conversation adds for request r
Exchange(r, text) == [req |-> r, msg |-> FormatHtml(text)]

\* "except Exception as openai_error" around the completion call: the
\* handler goes on with the fallback message
CompletionPropagates(ok) == ok
CompletionContinues(ok) == TRUE

\* "except Exception as e" around the whole body: what the route receives
HandlerPropagates(where) == "raised"
HandlerCaught(where) == "error_html"

\* an Exception raised at "where" inside the body of request r
ReqFail(r, where) ==
    /\ rpc' = [rpc EXCEPT ![r] = "done"]
    /\ rraised' = [rraised EXCEPT ![r] = where]
    /\ rret' = [rret EXCEPT ![r] = HandlerCaught(where)]

\* get_user_conversation: the SELECT; a record found is returned at once
ReqGetSelect(r) ==
    /\ rpc[r] = "idle"
    /\ \/ /\ convs = <<>>
          /\ rsaw' = [rsaw EXCEPT ![r] = [rec |-> NoRecord, conv |-> <<>>]]
          /\ rpc' = [rpc EXCEPT ![r] = "creating"]
       \/ \E i \in DOMAIN convs :
            /\ rsaw' = [rsaw EXCEPT ![r] = [rec |-> i, conv |-> convs[i]]]
            /\ rpc' = [rpc EXCEPT ![r] = "got"]
    /\ UNCHANGED <<convs, rresult, rraised, rret, targ>>
    /\ UNCHANGED <<qvars, reqvars, notevars, fencevars, extvars>>

\* get_user_conversation: no record was found, one with an empty
\* conversation is inserted and committed
ReqGetCreate(r) ==
    /\ rpc[r] = "creating"
    /\ convs' = Append(convs, <<>>)
    /\ rpc' = [rpc EXCEPT ![r] = "got"]
    /\ UNCHANGED <<rsaw, rresult, rraised, rret, targ>>
    /\ UNCHANGED <<qvars, reqvars, notevars, fencevars, extvars>>

\* get_user_conversation: the SELECT or the commit raises; the function
\* swallows the Exception and returns []
ReqGetFails(r) ==
    /\ rpc[r] \in {"idle", "creating"}
    /\ rpc' = [rpc EXCEPT ![r] = "got"]
    /\ UNCHANGED <<convs, rsaw, rresult, rraised, rret, targ>>
    /\ UNCHANGED <<qvars, reqvars, notevars, fencevars, extvars>>

\* reading the profile or the notes, or building the prompt, raises
ReqReadRaises(r) ==
    /\ rpc[r] = "got"
    /\ ReqFail(r, "read")
    /\ UNCHANGED <<convs, rsaw, rresult, targ>>
    /\ UNCHANGED <<qvars, reqvars, notevars, fencevars, extvars>>

\* the chat-completion call (synchronous): it returns the reply or fails
ReqComplete(r, ok) ==
    /\ rpc[r] = "got"
    /\ IF CompletionContinues(ok)
       THEN /\ rresult' = [rresult EXCEPT ![r] = IF ok THEN Reply ELSE Fallback]
            /\ rpc' = [rpc EXCEPT ![r] = "completed"]
            /\ UNCHANGED <<rraised, rret>>
       ELSE /\ ReqFail(r, "completion")
            /\ UNCHANGED rresult
    /\ UNCHANGED <<convs, rsaw, targ>>
    /\ UNCHANGED <<qvars, reqvars, notevars, fencevars, extvars>>

\* append_to_user_conversation: the SELECT of the current record
AppendSelect(r) ==
    /\ rpc[r] = "completed"
    /\ \/ /\ convs = <<>>
          /\ rsaw' = [rsaw EXCEPT ![r] = [rec |-> NoRecord, conv |-> <<>>]]
       \/ \E i \in DOMAIN convs :
            rsaw' = [rsaw EXCEPT ![r] = [rec |-> i, conv |-> convs[i]]]
    /\ rpc' = [rpc EXCEPT ![r] = "appsel"]
    /\ UNCHANGED <<convs, rresult, rraised, rret, targ>>
    /\ UNCHANGED <<qvars, reqvars, notevars, fencevars, extvars>>

\* append_to_user_conversation: a new record with the exchange is inserted,
\* or the two entries are appended to the list that was read and the whole
\* list is written back to the record; then the commit
AppendCommit(r) ==
    /\ rpc[r] = "appsel"
    /\ convs' = IF rsaw[r].rec = NoRecord
                THEN Append(convs, <<Exchange(r, rresult[r])>>)
                ELSE [convs EXCEPT ![rsaw[r].rec] =
                          Append(rsaw[r].conv, Exchange(r, rresult[r]))]
    /\ rpc' = [rpc EXCEPT ![r] = "saved"]
    /\ UNCHANGED <<rsaw, rresult, rraised, rret, targ>>
    /\ UNCHANGED <<qvars, reqvars, notevars, fencevars, extvars>>

\* append_to_user_conversation raises (it re-raises what it caught)
AppendRaises(r) ==
    /\ rpc[r] \in {"completed", "appsel"}
    /\ ReqFail(r, "save")
    /\ UNCHANGED <<convs, rsaw, rresult, targ>>
    /\ UNCHANGED <<qvars, reqvars, notevars, fencevars, extvars>>

\* "await queue_task(extract_user_notes, user_id, user_prompt, result)" and
\* "return html_response"
ReqEnqueue(r) ==
    /\ rpc[r] = "saved"
    /\ Submit
    /\ targ' = [targ EXCEPT ![nsubmitted + 1] = [req |-> r, text |-> rresult[r]]]
    /\ rpc' = [rpc EXCEPT ![r] = "done"]
    /\ rret' = [rret EXCEPT ![r] = "html"]
    /\ UNCHANGED <<convs, rsaw, rresult, rraised>>
    /\ UNCHANGED <<reqvars, notevars, fencevars, extvars>>

ConvNext ==
    \/ \E r \in Reqs : ReqGetSelect(r)
    \/ \E r \in Reqs : ReqGetCreate(r)
    \/ \E r \in Reqs : ReqGetFails(r)
    \/ \E r \in Reqs : ReqReadRaises(r)
    \/ \E r \in Reqs, ok \in BOOLEAN : ReqComplete(r, ok)
    \/ \E r \in Reqs : AppendSelect(r)
    \/ \E r \in Reqs : AppendCommit(r)
    \/ \E r \in Reqs : AppendRaises(r)
    \/ \E r \in Reqs : ReqEnqueue(r)

\* concurrent requests of one user, the worker not scheduled
ConvSpec == Init /\ [][ConvNext]_vars

\* the requests together with the worker that runs the queued tasks
ChatNext ==
    \/ ConvNext
    \/ Startup
    \/ \E w \in Workers : WorkerStart(w)
    \/ \E w \in Workers : WorkerWake(w)
    \/ \E w \in Workers : TaskReturns(w)

ChatSpec == Init /\ [][ChatNext]_vars

\* the tasks enqueued by request r
TasksOf(r, args) == {t \in Tasks : args[t].req = r}
\* the exchange of r is stored in some record of the user
Stored(r, records) ==
    \E i \in DOMAIN records : Exchange(r, rresult[r]) \in Range(records[i])

\* C28: at most one Conversation record exists for the user_id, whatever
\* the interleaving of get_user_conversation and append_to_user_conversation.
OneConversationRecord == Len(convs) <= 1

\* C27: the exchange of every request whose append has committed is in the
\* stored conversation (in some record of the user), even when the requests
\* were interleaved.
NoExchangeLost ==
    \A r \in Reqs : rpc[r] \in {"saved", "done"} /\ rraised[r] = "none" => Stored(r, convs)

\* C21: a request enqueues its extract_user_notes task only after its append
\* committed, a request whose append raised has no task, and the step in which
\* a task starts executing finds the exchange of its request stored in the
\* user's conversation.
TaskFindsOwnExchange ==
    [][/\ \A r \in Reqs :
              /\ TasksOf(r, targ') # TasksOf(r, targ) => rpc[r] = "saved"
              /\ rraised'[r] = "save" => TasksOf(r, targ') = {}
       /\ \A t \in Tasks :
              (tstate[t] = "queued" /\ tstate'[t] = "running")
                  => Stored(targ[t].req, convs')]_vars

\* C22: the step of the chat-completion call goes on to the append whether
\* the call returned or failed; a request whose call failed appends the
\* (formatted) fallback message as the newest exchange of the record it
\* writes, and its enqueue step puts exactly one task on the queue, carrying
\* the fallback text, and returns the HTML.
FallbackSameSteps ==
    [][\A r \in Reqs :
          /\ (rpc[r] = "got" /\ rpc'[r] # "got" /\ rraised'[r] # "read")
                 => (rpc'[r] = "completed" /\ rresult'[r] \in {Reply, Fallback})
          /\ (rresult[r] = Fallback /\ rpc[r] = "appsel" /\ rpc'[r] = "saved")
                 => \E i \in DOMAIN convs' :
                        /\ convs'[i] # <<>>
                        /\ convs'[i][Len(convs'[i])] = Exchange(r, Fallback)
          /\ (rresult[r] = Fallback /\ rpc[r] = "saved" /\ rpc'[r] = "done")
                 => /\ Cardinality(TasksOf(r, targ')) = 1
                    /\ \A t \in TasksOf(r, targ') :
                           /\ targ'[t].text = Fallback
                           /\ Occurrences(queue', t) = 1
                    /\ rret'[r] = "html"
          /\ rpc'[r] # "done" => TasksOf(r, targ') = {}]_vars
FallbackWitness ==
    \E r, q \in Reqs :
        /\ rpc[r] = "done" /\ rresult[r] = Fallback /\ rret[r] = "html"
        /\ rpc[q] = "done" /\ rresult[q] = Reply /\ rret[q] = "html"

\* C23: get_agent_response propagates no Exception: a finished call returned
\* the HTML of the reply or, when reading the profile or the notes or saving
\* the conversation raised, the fixed error HTML.
HandlerNeverRaises ==
    \A r \in Reqs :
        rpc[r] = "done" =>
            /\ rret[r] \in {"html", "error_html"}
            /\ rret[r] = "error_html" <=> rraised[r] # "none"
HandlerNeverRaisesWitness ==
    \E r, q \in Reqs :
        /\ rpc[r] = "done" /\ rraised[r] = "read"
        /\ rpc[q] = "done" /\ rraised[q] = "save"

\* ---- agent.py: extract_user_notes awaited by the worker ----
\* "except Exception as e: ... return []" around the whole body, and
\* "except json.JSONDecodeError" inside it: how the coroutine ends for the
\* worker when err was raised inside it
ExtractCatchesJsonOnly(err) == IF err \in {"none", "json_error"} THEN "ok" ELSE "exception"
ExtractCaught(err) == "ok"

\* the errors up to json.loads, and those of the loop that stores the notes
AnalyseErrors == {"read_error", "call_error", "json_error"}
StoreErrors == {"store_error"}

\* the coroutine of task t ends with err raised inside it
ExtractFinish(t, err) ==
    /\ xpc' = [xpc EXCEPT ![t] = "finished"]
    /\ xerr' = [xerr EXCEPT ![t] = err]
    /\ xout' = [xout EXCEPT ![t] = ExtractCaught(err)]

\* the run after get_user_conversation returned: the prompt is built, the
\* model is called (synchronously), the completion is parsed and the first
\* add_or_update_user_note is awaited; or one of these raises
ExtractAnalyse(t, err) ==
    /\ tstate[t] = "running"
    /\ xpc[t] = "none"
    /\ IF err = "none"
       THEN /\ xpc' = [xpc EXCEPT ![t] = "storing"]
            /\ UNCHANGED <<xerr, xout>>
       ELSE ExtractFinish(t, err)
    /\ UNCHANGED <<qvars, reqvars, notevars, fencevars, convvars>>

\* the notes are stored and returned, or a malformed note raises in the loop
ExtractStore(t, err) ==
    /\ tstate[t] = "running"
    /\ xpc[t] = "storing"
    /\ ExtractFinish(t, err)
    /\ UNCHANGED <<qvars, reqvars, notevars, fencevars, convvars>>

\* "await task_func(...)" ends the way the coroutine ended
ExtractEnds(w) ==
    /\ wpc[w] = "exec"
    /\ xpc[wcur[w]] = "finished"
    /\ TaskEnds(w, xout[wcur[w]])

ExtractNext ==
    \/ Startup
    \/ QueueTask
    \/ \E w \in Workers : WorkerStart(w)
    \/ \E w \in Workers : WorkerWake(w)
    \/ \E t \in Tasks, err \in AnalyseErrors \cup {"none"} : ExtractAnalyse(t, err)
    \/ \E t \in Tasks, err \in StoreErrors \cup {"none"} : ExtractStore(t, err)
    \/ \E w \in Workers : ExtractEnds(w)

\* the facility when every queued task is extract_user_notes
ExtractSpec == Init /\ [][ExtractNext]_vars

\* C24: extract_user_notes raises no Exception to the worker: whatever
\* fails inside it (reading the conversation, the model call, the JSON
\* parsing, storing a note) the awaited call returns, so the task ends as
\* "returned" and never reaches the worker's exception handler.
ExtractNeverRaises ==
    /\ \A t \in Tasks : xpc[t] = "finished" => xout[t] = "ok"
    /\ \A t \in Tasks : tstate[t] \notin {"raised", "raised_cancelled"}
ExtractNeverRaisesWitness ==
    \E t, u, v \in Tasks :
        /\ tstate[t] = "returned" /\ xerr[t] = "store_error"
        /\ tstate[u] = "returned" /\ xerr[u] = "call_error"
        /\ tstate[v] = "returned" /\ xerr[v] = "none"

====
